---- MODULE Spec2Model ----
(***************************************************************************)
(* The button engine of libmcu (modules/button/src/button.c): a fixed pool *)
(* of button instances, each a shift-register debouncer stepped by the     *)
(* host, together with its parameter and lifecycle operations.             *)
(***************************************************************************)
EXTENDS Integers, Sequences, FiniteSets, TLC

VARIABLES
    btns,   \* static struct button btns[BUTTON_MAX] of button_new
    call,   \* the most recent API call: arguments, return value, callbacks
    hist,   \* history of the live instance since its button_new
    tasks   \* the lock and the contexts inside button_new / button_delete

vars == <<btns, call, hist, tasks>>

-----------------------------------------------------------------------------
(* Compile-time tunables and types of button.c.                            *)

BUTTON_MAX == 8
BUTTON_SAMPLING_INTERVAL_MS == 10
BUTTON_MIN_PRESS_TIME_MS == 60
BUTTON_REPEAT_DELAY_MS == 300
BUTTON_REPEAT_RATE_MS == 200
BUTTON_CLICK_WINDOW_MS == 500

\* sizeof(waveform_t) * 8 for typedef uint32_t waveform_t
WAVEFORM_BITS == 32
\* uint8_t clicks
UINT8_RANGE == 256
\* uint16_t get_min_pressed_pulse_count()
UINT16_RANGE == 65536

-----------------------------------------------------------------------------
(* Bounds of the model.                                                    *)

\* uint32_t millisecond counters are kept modulo TimeRange
TimeRange == 1073741824
\* the host's clock stops at MaxTime
MaxTime == 7
\* a step is at most MaxDelta ms after the previous sampling step
MaxDelta == 3

-----------------------------------------------------------------------------
(* Values.                                                                 *)

\* a pointer is <<>> (null) or <<target>>
NULL == <<>>

BUTTON_ERROR_NONE == "BUTTON_ERROR_NONE"
BUTTON_ERROR_INVALID_PARAM == "BUTTON_ERROR_INVALID_PARAM"
BUTTON_ERROR_INCORRECT_PARAM == "BUTTON_ERROR_INCORRECT_PARAM"
BUTTON_ERROR_DISABLED == "BUTTON_ERROR_DISABLED"

BUTTON_EVT_NONE == "BUTTON_EVT_NONE"
BUTTON_EVT_PRESSED == "BUTTON_EVT_PRESSED"
BUTTON_EVT_RELEASED == "BUTTON_EVT_RELEASED"
BUTTON_EVT_HOLDING == "BUTTON_EVT_HOLDING"
BUTTON_EVT_CLICK == "BUTTON_EVT_CLICK"

STATE_IDLE == "STATE_IDLE"
STATE_PRESSED == "STATE_PRESSED"
STATE_RELEASED == "STATE_RELEASED"
STATE_DOWN == "STATE_DOWN"
STATE_UP == "STATE_UP"
STATE_DEBOUNCING == "STATE_DEBOUNCING"

\* const uint32_t activity_mask in process_button
activity_mask == {STATE_PRESSED, STATE_DOWN, STATE_DEBOUNCING}

Slots == 0 .. (BUTTON_MAX - 1)

\* uint32_t subtraction of two millisecond counters
U32Sub(a, b) == (a - b + TimeRange) % TimeRange

-----------------------------------------------------------------------------
(* waveform_t: 32 bits, element i of the tuple is bit i-1 (bit 0 newest).  *)

BitIdx == 1 .. WAVEFORM_BITS

WaveZero == [i \in BitIdx |-> 0]

\* 1U << n, defined by C for n < WAVEFORM_BITS only
ShlOne(n) == [i \in BitIdx |-> IF i = n + 1 THEN 1 ELSE 0]

\* w - 1 on waveform_t (borrow runs through the low zero bits)
WaveDec(w) ==
    IF \A i \in BitIdx : w[i] = 0
    THEN [i \in BitIdx |-> 1]
    ELSE LET low == CHOOSE i \in BitIdx :
                        w[i] = 1 /\ \A j \in 1 .. (i - 1) : w[j] = 0
         IN  [i \in BitIdx |-> IF i < low THEN 1
                               ELSE IF i = low THEN 0 ELSE w[i]]

\* a & b
WaveAnd(a, b) == [i \in BitIdx |-> IF a[i] = 1 /\ b[i] = 1 THEN 1 ELSE 0]

\* w <<= 1
WaveShl1(w) == [i \in BitIdx |-> IF i = 1 THEN 0 ELSE w[i - 1]]

\* w |= level
WaveOrLevel(w, level) == [w EXCEPT ![1] = IF level = 1 THEN 1 ELSE w[1]]

-----------------------------------------------------------------------------
(* struct button_param, struct button_data, struct button.                 *)

Param(si, mp, rd, rr, cw) ==
    [sampling_interval_ms |-> si, min_press_time_ms |-> mp,
     repeat_delay_ms |-> rd, repeat_rate_ms |-> rr, click_window_ms |-> cw]

ZeroParam == Param(0, 0, 0, 0, 0)

ZeroData ==
    [waveform |-> WaveZero, time_pressed |-> 0, time_released |-> 0,
     time_repeat |-> 0, clicks |-> 0]

\* a slot of the static pool: zero-initialised storage
ZeroButton ==
    [data |-> ZeroData, param |-> ZeroParam,
     get_state |-> NULL, get_state_ctx |-> NULL,
     callback |-> NULL, callback_ctx |-> NULL,
     timestamp |-> 0, allocated |-> FALSE, active |-> FALSE,
     pressed |-> FALSE]

get_default_param ==
    Param(BUTTON_SAMPLING_INTERVAL_MS, BUTTON_MIN_PRESS_TIME_MS,
          BUTTON_REPEAT_DELAY_MS, BUTTON_REPEAT_RATE_MS,
          BUTTON_CLICK_WINDOW_MS)

-----------------------------------------------------------------------------
(* Waveform discriminator.                                                 *)

get_min_pressed_pulse_count(btn) ==
    (btn.param.min_press_time_ms \div btn.param.sampling_interval_ms)
        % UINT16_RANGE

get_min_pressed_waveform(btn) == ShlOne(get_min_pressed_pulse_count(btn))

get_waveform_debouncing_mask(btn) ==
    WaveDec(ShlOne(get_min_pressed_pulse_count(btn)))

get_waveform_mask(btn) ==
    WaveDec(ShlOne(get_min_pressed_pulse_count(btn) + 1))

get_waveform(btn) == WaveAnd(btn.data.waveform, get_waveform_mask(btn))

update_waveform(waveform, pressed) == WaveOrLevel(WaveShl1(waveform), pressed)

\* is_button_pressed qualifying a press one sample early
is_button_pressed_short(btn) ==
    IF btn.pressed
    THEN FALSE
    ELSE LET expected == WaveDec(ShlOne(get_min_pressed_pulse_count(btn) - 1))
         IN  WaveAnd(get_waveform(btn), expected) = expected

\* is_button_pressed without its "already pressed" early return
is_button_pressed_no_latch(btn) ==
    LET expected == WaveDec(get_min_pressed_waveform(btn))
        mask == get_waveform_debouncing_mask(btn)
    IN  WaveAnd(get_waveform(btn), mask) = expected

is_button_pressed(btn) ==
    IF btn.pressed
    THEN FALSE
    ELSE LET expected == WaveDec(get_min_pressed_waveform(btn))
             mask == get_waveform_debouncing_mask(btn)
         IN  WaveAnd(get_waveform(btn), mask) = expected

\* is_button_released expecting the release sentinel one bit lower
is_button_released_short(btn) ==
    IF ~btn.pressed
    THEN FALSE
    ELSE LET expected == ShlOne(get_min_pressed_pulse_count(btn) - 1)
         IN  get_waveform(btn) = expected

is_button_released(btn) ==
    IF ~btn.pressed
    THEN FALSE
    ELSE LET expected == get_min_pressed_waveform(btn)
         IN  get_waveform(btn) = expected

is_button_up(btn) ==
    LET mask == get_waveform_debouncing_mask(btn)
    IN  WaveAnd(get_waveform(btn), mask) = WaveZero

is_button_down(btn) ==
    LET mask == get_waveform_debouncing_mask(btn)
    IN  WaveAnd(get_waveform(btn), mask) = mask

\* is_click_window_closed with a strict comparison
is_click_window_closed_strict(btn, time_ms) ==
    U32Sub(time_ms, btn.data.time_released) > btn.param.click_window_ms

is_click_window_closed(btn, time_ms) ==
    U32Sub(time_ms, btn.data.time_released) >= btn.param.click_window_ms

-----------------------------------------------------------------------------
(* Step operation.  levels is what the successive get_state calls of this  *)
(* step return, one element per pulse.                                     *)

RECURSIVE update_state(_, _)
update_state(btn, levels) ==
    IF levels = <<>>
    THEN btn
    ELSE update_state(
             [btn EXCEPT !.data.waveform = update_waveform(@, Head(levels))],
             Tail(levels))

process_pressed(btn, time_ms) ==
    [btn EXCEPT !.data.time_pressed = time_ms, !.pressed = TRUE]

\* process_released leaving time_repeat as it is
process_released_keep_repeat(btn, time_ms) ==
    [btn EXCEPT !.data.time_released = time_ms,
                !.pressed = FALSE,
                !.data.clicks = (@ + 1) % UINT8_RANGE]

process_released(btn, time_ms) ==
    [btn EXCEPT !.data.time_released = time_ms,
                !.pressed = FALSE,
                !.data.clicks = (@ + 1) % UINT8_RANGE,
                !.data.time_repeat = 0]

\* process_holding firing the first repeat without the initial delay
holding_updated_no_delay(btn, time_ms) ==
    IF btn.data.time_repeat # 0
    THEN U32Sub(time_ms, btn.data.time_repeat) >= btn.param.repeat_rate_ms
    ELSE TRUE

\* process_holding with strict comparisons
holding_updated_strict(btn, time_ms) ==
    IF btn.data.time_repeat # 0
    THEN U32Sub(time_ms, btn.data.time_repeat) > btn.param.repeat_rate_ms
    ELSE U32Sub(time_ms, btn.data.time_pressed) > btn.param.repeat_delay_ms

\* process_holding measuring every repeat from time_pressed
holding_updated_delay_only(btn, time_ms) ==
    U32Sub(time_ms, btn.data.time_pressed) >= btn.param.repeat_delay_ms

\* the bool result of process_holding
holding_updated(btn, time_ms) ==
    IF btn.data.time_repeat # 0
    THEN U32Sub(time_ms, btn.data.time_repeat) >= btn.param.repeat_rate_ms
    ELSE U32Sub(time_ms, btn.data.time_pressed) >= btn.param.repeat_delay_ms

process_holding(btn, time_ms) ==
    IF holding_updated(btn, time_ms)
    THEN [btn EXCEPT !.data.time_repeat = time_ms]
    ELSE btn

\* pulses rounded up instead of down
step_pulses_round_up(btn, time_ms) ==
    (U32Sub(time_ms, btn.timestamp) + btn.param.sampling_interval_ms - 1)
        \div btn.param.sampling_interval_ms

\* const uint32_t pulses in process_button
step_pulses(btn, time_ms) ==
    U32Sub(time_ms, btn.timestamp) \div btn.param.sampling_interval_ms

\* the if / else-if chain of process_button on the shifted waveform
classify(btn) ==
    IF is_button_pressed(btn) THEN STATE_PRESSED
    ELSE IF is_button_released(btn) THEN STATE_RELEASED
    ELSE IF is_button_down(btn) THEN STATE_DOWN
    ELSE IF is_button_up(btn) THEN STATE_UP
    ELSE IF get_waveform(btn) # WaveZero THEN STATE_DEBOUNCING
    ELSE STATE_IDLE

\* the click-window rule at the end of process_button
reset_clicks(btn, state, time_ms) ==
    IF state \notin activity_mask /\ is_click_window_closed(btn, time_ms)
    THEN [btn EXCEPT !.data.clicks = 0]
    ELSE btn

\* process_button from the branch taken for state to its return: shifted
\* is the instance after update_state
process_state(shifted, state, time_ms, pulses) ==
    LET event ==
            CASE state = STATE_PRESSED -> BUTTON_EVT_PRESSED
              [] state = STATE_RELEASED -> BUTTON_EVT_RELEASED
              [] state = STATE_DOWN /\ holding_updated(shifted, time_ms)
                    -> BUTTON_EVT_HOLDING
              [] OTHER -> BUTTON_EVT_NONE
        acted ==
            CASE state = STATE_PRESSED -> process_pressed(shifted, time_ms)
              [] state = STATE_RELEASED -> process_released(shifted, time_ms)
              [] state = STATE_DOWN -> process_holding(shifted, time_ms)
              [] OTHER -> shifted
        counted == reset_clicks(acted, state, time_ms)
    IN  [btn |-> [counted EXCEPT !.timestamp = time_ms],
         event |-> event, state |-> state, pulses |-> pulses]

process_button(btn, time_ms, levels) ==
    LET pulses == step_pulses(btn, time_ms)
    IN  IF pulses = 0
        THEN [btn |-> btn, event |-> BUTTON_EVT_NONE, state |-> STATE_IDLE,
              pulses |-> 0]
        ELSE CHOOSE r \in
                 UNION {{process_state(shifted, state, time_ms, pulses) :
                             state \in {classify(shifted)}} :
                        shifted \in {update_state(btn, levels)}} : TRUE

\* step_callbacks passing the click count with every event
step_callbacks_count_always(btn, event) ==
    IF event # BUTTON_EVT_NONE /\ btn.callback # NULL
    THEN <<[event |-> event, data |-> btn.data.clicks]>>
         \o (IF event = BUTTON_EVT_RELEASED
             THEN <<[event |-> BUTTON_EVT_CLICK, data |-> btn.data.clicks]>>
             ELSE <<>>)
    ELSE <<>>

\* the callback invocations of button_step, in order
step_callbacks(btn, event) ==
    IF event # BUTTON_EVT_NONE /\ btn.callback # NULL
    THEN <<[event |-> event, data |-> 0]>>
         \o (IF event = BUTTON_EVT_RELEASED
             THEN <<[event |-> BUTTON_EVT_CLICK, data |-> btn.data.clicks]>>
             ELSE <<>>)
    ELSE <<>>

\* the number of get_state calls button_step(btn, time_ms) makes
step_reads(pool, btn, time_ms) ==
    IF btn = NULL THEN 0
    ELSE IF ~pool[btn[1]].active THEN 0
    ELSE step_pulses(pool[btn[1]], time_ms)

\* button_step without the check of btn->active
button_step_always(pool, btn, time_ms, levels) ==
    IF btn = NULL
    THEN [pool |-> pool, ret |-> BUTTON_ERROR_INVALID_PARAM,
          event |-> BUTTON_EVT_NONE, state |-> STATE_IDLE, pulses |-> 0,
          cbs |-> <<>>]
    ELSE LET r == process_button(pool[btn[1]], time_ms, levels)
         IN  [pool |-> [pool EXCEPT ![btn[1]] = r.btn],
              ret |-> BUTTON_ERROR_NONE,
              event |-> r.event, state |-> r.state, pulses |-> r.pulses,
              cbs |-> step_callbacks(r.btn, r.event)]

button_step(pool, btn, time_ms, levels) ==
    IF btn = NULL
    THEN [pool |-> pool, ret |-> BUTTON_ERROR_INVALID_PARAM,
          event |-> BUTTON_EVT_NONE, state |-> STATE_IDLE, pulses |-> 0,
          cbs |-> <<>>]
    ELSE IF ~pool[btn[1]].active
    THEN [pool |-> pool, ret |-> BUTTON_ERROR_DISABLED,
          event |-> BUTTON_EVT_NONE, state |-> STATE_IDLE, pulses |-> 0,
          cbs |-> <<>>]
    ELSE LET r == process_button(pool[btn[1]], time_ms, levels)
         IN  [pool |-> [pool EXCEPT ![btn[1]] = r.btn],
              ret |-> BUTTON_ERROR_NONE,
              event |-> r.event, state |-> r.state, pulses |-> r.pulses,
              cbs |-> step_callbacks(r.btn, r.event)]

-----------------------------------------------------------------------------
(* Parameter management.                                                   *)

\* is_param_ok without the test of click_window_ms
is_param_ok_no_window(param, min_pulse_count) ==
    IF \/ param.sampling_interval_ms = 0
       \/ param.repeat_delay_ms = 0
       \/ param.repeat_rate_ms = 0
    THEN FALSE
    ELSE IF param.min_press_time_ms < param.sampling_interval_ms
    THEN FALSE
    ELSE IF min_pulse_count >= (WAVEFORM_BITS - 2) % UINT16_RANGE
    THEN FALSE
    ELSE TRUE

is_param_ok(param, min_pulse_count) ==
    IF \/ param.sampling_interval_ms = 0
       \/ param.repeat_delay_ms = 0
       \/ param.repeat_rate_ms = 0
       \/ param.click_window_ms = 0
    THEN FALSE
    ELSE IF param.min_press_time_ms < param.sampling_interval_ms
    THEN FALSE
    ELSE IF min_pulse_count >= (WAVEFORM_BITS - 2) % UINT16_RANGE
    THEN FALSE
    ELSE TRUE

button_set_param(pool, btn, param) ==
    IF btn = NULL \/ param = NULL
    THEN [pool |-> pool, ret |-> BUTTON_ERROR_INVALID_PARAM]
    ELSE IF ~is_param_ok(param[1], get_min_pressed_pulse_count(pool[btn[1]]))
    THEN [pool |-> pool, ret |-> BUTTON_ERROR_INCORRECT_PARAM]
    ELSE [pool |-> [pool EXCEPT ![btn[1]].param = param[1]],
          ret |-> BUTTON_ERROR_NONE]

\* param is the caller's struct before the call, out what it holds after
button_get_param(pool, btn, param) ==
    IF btn = NULL \/ param = NULL
    THEN [out |-> param, ret |-> BUTTON_ERROR_INVALID_PARAM]
    ELSE [out |-> <<pool[btn[1]].param>>, ret |-> BUTTON_ERROR_NONE]

-----------------------------------------------------------------------------
(* Lifecycle.                                                              *)

\* button_busy answering with the pressed latch
button_busy_latch(pool, btn) == pool[btn[1]].pressed

button_busy(pool, btn) == ~is_button_up(pool[btn[1]])

button_enable(pool, btn) ==
    IF btn = NULL
    THEN [pool |-> pool, ret |-> BUTTON_ERROR_INVALID_PARAM]
    ELSE [pool |-> [pool EXCEPT ![btn[1]].active = TRUE],
          ret |-> BUTTON_ERROR_NONE]

button_disable(pool, btn) ==
    IF btn = NULL
    THEN [pool |-> pool, ret |-> BUTTON_ERROR_INVALID_PARAM]
    ELSE [pool |-> [pool EXCEPT ![btn[1]].active = FALSE],
          ret |-> BUTTON_ERROR_NONE]

\* new_button handing out the first slot whatever its allocated flag
new_button_first(pool) ==
    IF \E i \in Slots : ~pool[i].allocated THEN <<0>> ELSE NULL

\* the slot new_button returns (and marks allocated), or NULL
new_button(pool) ==
    IF \E i \in Slots : ~pool[i].allocated
    THEN <<CHOOSE i \in Slots :
               ~pool[i].allocated /\ \A j \in 0 .. (i - 1) : pool[j].allocated>>
    ELSE NULL

\* free_button clearing the allocated flag only
free_button_flag_only(pool, btn) == [pool EXCEPT ![btn[1]].allocated = FALSE]

free_button(pool, btn) == [pool EXCEPT ![btn[1]] = ZeroButton]

button_new(pool, f_get, f_get_ctx, cb, cb_ctx) ==
    IF f_get = NULL
    THEN [pool |-> pool, ret |-> NULL]
    ELSE LET btn == new_button(pool)
         IN  IF btn = NULL
             THEN [pool |-> pool, ret |-> NULL]
             ELSE [pool |-> [pool EXCEPT ![btn[1]] =
                               [@ EXCEPT !.allocated = TRUE,
                                         !.get_state = f_get,
                                         !.get_state_ctx = f_get_ctx,
                                         !.callback = cb,
                                         !.callback_ctx = cb_ctx,
                                         !.param = get_default_param]],
                   ret |-> btn]

button_delete(pool, btn) == free_button(pool, btn)

-----------------------------------------------------------------------------
(* The record of the most recent API call, and the history of the live     *)
(* instance: the samples its getter returned, the callbacks it received    *)
(* and the times of its events.                                            *)

NoCall ==
    [op |-> "none", btn |-> NULL, ret |-> BUTTON_ERROR_NONE, handle |-> NULL,
     time_ms |-> 0, pulses |-> 0, reads |-> 0,
     entry_pressed |-> FALSE, entry_clicks |-> 0,
     state |-> STATE_IDLE, event |-> BUTTON_EVT_NONE, cbs |-> <<>>,
     param |-> NULL, out |-> NULL,
     f_get |-> NULL, f_get_ctx |-> NULL, cb |-> NULL, cb_ctx |-> NULL,
     busy |-> FALSE, used |-> FALSE,
     twin_pulses |-> 0, twin_event |-> BUTTON_EVT_NONE, twin_cbs |-> <<>>]

\* the owner of a slot has left its mark on every field a fresh instance
\* has at its initial value
Used(b) ==
    /\ b.pressed /\ b.active /\ b.timestamp # 0
    /\ b.data.waveform # WaveZero /\ b.data.clicks # 0
    /\ b.data.time_pressed # 0 /\ b.data.time_released # 0
    /\ b.data.time_repeat # 0
    /\ b.param # get_default_param

\* the call before this one deleted an instance that was in use
AfterUsed == call.op = "delete" /\ call.used

HistInit ==
    [samples |-> <<>>, log |-> <<>>, edge |-> BUTTON_EVT_NONE,
     events |-> 0, run |-> FALSE, exact |-> TRUE,
     pressed_at |-> -1, released_at |-> -1,
     holding_at |-> -1, holding_prev |-> -1, stable |-> TRUE,
     rel_since_idle |-> 0, idle_closed |-> FALSE]

\* the k-th most recent sample; the register reads up before the first one
Recent(samples, k) ==
    IF k <= Len(samples) THEN samples[Len(samples) - k + 1] ELSE 0

\* the n most recent samples all read level
RecentAll(samples, n, level) == \A k \in 1 .. n : Recent(samples, k) = level

\* some sample of added completed a run of n down samples
RunCompleted(samples, added, n) ==
    \E m \in 1 .. Len(added) :
        LET s == samples \o SubSeq(added, 1, m)
        IN  Len(s) >= n /\ RecentAll(s, n, 1)

HistStep(h, btn, r, time_ms, levels) ==
    IF r.pulses = 0
    THEN h
    ELSE
    LET n == get_min_pressed_pulse_count(btn)
        s == h.samples \o levels
        elapsed == U32Sub(time_ms, btn.timestamp)
        idle == /\ RecentAll(s, n, 0)
                /\ r.event # BUTTON_EVT_RELEASED
                /\ h.released_at # -1
                /\ time_ms - h.released_at >= btn.param.click_window_ms
        h1 == [h EXCEPT
                 !.samples = s,
                 !.log = @ \o r.cbs,
                 !.events = IF r.event # BUTTON_EVT_NONE THEN @ + 1 ELSE @,
                 !.run = @ \/ RunCompleted(h.samples, levels, n),
                 !.exact = @ /\ elapsed = btn.param.sampling_interval_ms,
                 !.rel_since_idle = IF idle THEN 0 ELSE @,
                 !.idle_closed = @ \/ idle]
    IN  CASE r.event = BUTTON_EVT_PRESSED ->
               [h1 EXCEPT !.edge = BUTTON_EVT_PRESSED,
                          !.pressed_at = time_ms,
                          !.holding_at = -1, !.holding_prev = -1,
                          !.stable = TRUE]
          [] r.event = BUTTON_EVT_RELEASED ->
               [h1 EXCEPT !.edge = BUTTON_EVT_RELEASED,
                          !.released_at = time_ms,
                          !.holding_at = -1, !.holding_prev = -1,
                          !.rel_since_idle = @ + 1]
          [] r.event = BUTTON_EVT_HOLDING ->
               [h1 EXCEPT !.holding_prev = h.holding_at,
                          !.holding_at = time_ms]
          [] OTHER -> h1

-----------------------------------------------------------------------------
(* Contexts that may preempt each other inside button_new and              *)
(* button_delete, and the button_lock / button_unlock pair they call.      *)

\* the number of contexts
NumContexts == 2

Contexts == 1 .. NumContexts

\* a context outside the API: it holds the handles button_new gave it
IdleContext == [pc |-> "idle", i |-> 0, btn |-> NULL, held |-> {}]

\* mutex: button_lock / button_unlock are overridden by a mutual-exclusion
\* pair (the weak defaults of button_overrides.c do nothing); owner is the
\* context holding that lock, 0 for none; dup records a handle returned to
\* a context that already held it
\* raced: some call entered button_new or button_delete while another
\* context was inside one of them
TasksInit ==
    [mutex |-> FALSE, owner |-> 0, dup |-> FALSE, raced |-> FALSE,
     ctx |-> [c \in Contexts |-> IdleContext]]

\* a lock pair that excludes nobody
button_lock_ready_always(t) == TRUE

\* button_lock returns: at once for the no-op default, once the lock is
\* free for a mutual-exclusion pair
button_lock_ready(t) == ~t.mutex \/ t.owner = 0

-----------------------------------------------------------------------------
(* The host.  It keeps one instance at a time and passes its handle or a   *)
(* null pointer; timestamps never decrease and stop at MaxTime.            *)

Live == {i \in Slots : btns[i].allocated}

HostHandles == {NULL} \cup {<<i>> : i \in Live}

\* the timestamps the host may pass next; a call that is rejected is tried
\* with the instance's own timestamp only
HostTime(btn, time_ms) ==
    IF btn = NULL
    THEN time_ms = 0
    ELSE IF ~btns[btn[1]].active
    THEN time_ms = btns[btn[1]].timestamp
    ELSE time_ms - btns[btn[1]].timestamp \in 0 .. MaxDelta

LevelScripts(n) == [1 .. n -> {0, 1}]

\* the parameter blocks the host configures its button with
ParamA == Param(1, 2, 3, 2, 3)
ParamB == Param(1, 1, 2, 3, 1)

ParamInputs == {ParamA, ParamB}

-----------------------------------------------------------------------------
(* Actions: one per API call.                                              *)

Init ==
    /\ btns = [i \in Slots |-> ZeroButton]
    /\ call = NoCall
    /\ hist = HistInit
    /\ tasks = TasksInit

\* button_new called by a host that may hold other instances
Create(f_get, cb) ==
    LET r == button_new(btns, f_get, <<"get_state_ctx">>, cb,
                        <<"callback_ctx">>)
    IN  /\ btns' = r.pool
        /\ call' = [NoCall EXCEPT !.op = "new", !.handle = r.ret,
                                  !.f_get = f_get,
                                  !.f_get_ctx = <<"get_state_ctx">>,
                                  !.cb = cb,
                                  !.cb_ctx = <<"callback_ctx">>,
                                  !.used = AfterUsed]
        /\ hist' = HistInit
        /\ UNCHANGED tasks

\* button_new called by a host that holds no instance
New(f_get, cb) ==
    /\ Live = {}
    /\ LET r == button_new(btns, f_get, <<"get_state_ctx">>, cb,
                           <<"callback_ctx">>)
       IN  /\ btns' = r.pool
           /\ call' = [NoCall EXCEPT !.op = "new", !.handle = r.ret,
                                     !.f_get = f_get,
                                     !.f_get_ctx = <<"get_state_ctx">>,
                                     !.cb = cb,
                                     !.cb_ctx = <<"callback_ctx">>,
                                     !.used = AfterUsed]
           /\ hist' = HistInit
           /\ UNCHANGED tasks

Delete(btn) ==
    /\ btn # NULL
    /\ btns' = button_delete(btns, btn)
    /\ call' = [NoCall EXCEPT !.op = "delete", !.btn = btn,
                              !.used = Used(btns[btn[1]])]
    /\ hist' = HistInit
    /\ UNCHANGED tasks

Enable(btn) ==
    LET r == button_enable(btns, btn)
    IN  /\ btns' = r.pool
        /\ call' = [NoCall EXCEPT !.op = "enable", !.btn = btn, !.ret = r.ret]
        /\ UNCHANGED <<hist, tasks>>

Disable(btn) ==
    LET r == button_disable(btns, btn)
    IN  /\ btns' = r.pool
        /\ call' = [NoCall EXCEPT !.op = "disable", !.btn = btn, !.ret = r.ret]
        /\ UNCHANGED <<hist, tasks>>

SetParam(btn, param) ==
    LET r == button_set_param(btns, btn, param)
    IN  /\ btns' = r.pool
        /\ call' = [NoCall EXCEPT !.op = "set_param", !.btn = btn,
                                  !.ret = r.ret, !.param = param]
        /\ hist' = [hist EXCEPT !.stable = @ /\ r.pool = btns]
        /\ UNCHANGED tasks

GetParam(btn, param) ==
    LET r == button_get_param(btns, btn, param)
    IN  /\ call' = [NoCall EXCEPT !.op = "get_param", !.btn = btn,
                                  !.ret = r.ret, !.param = param,
                                  !.out = r.out]
        /\ UNCHANGED <<btns, hist, tasks>>

Busy(btn) ==
    /\ btn # NULL
    /\ call' = [NoCall EXCEPT !.op = "busy", !.btn = btn,
                              !.busy = button_busy(btns, btn)]
    /\ UNCHANGED <<btns, hist, tasks>>

Step(btn, time_ms, levels) ==
    \E r \in {button_step(btns, btn, time_ms, levels)} :
        /\ btns' = r.pool
        /\ call' = [NoCall EXCEPT
                      !.op = "step", !.btn = btn, !.ret = r.ret,
                      !.time_ms = time_ms, !.pulses = r.pulses,
                      !.reads = Len(levels),
                      !.entry_pressed = btn # NULL /\ btns[btn[1]].pressed,
                      !.entry_clicks =
                          IF btn = NULL THEN 0 ELSE btns[btn[1]].data.clicks,
                      !.state = r.state, !.event = r.event, !.cbs = r.cbs]
        /\ hist' = IF btn = NULL THEN hist
                   ELSE HistStep(hist, btns[btn[1]], r, time_ms, levels)
        /\ UNCHANGED tasks

Next ==
    \/ \E f_get \in {NULL, <<"get_state">>}, cb \in {NULL, <<"callback">>} :
           New(f_get, cb)
    \/ \E btn \in HostHandles : Delete(btn)
    \/ \E btn \in HostHandles : Enable(btn)
    \/ \E btn \in HostHandles : Disable(btn)
    \/ \E btn \in HostHandles, param \in {<<p>> : p \in ParamInputs} :
           hist.samples = <<>> /\ SetParam(btn, param)
    \/ \E btn \in HostHandles, time_ms \in 0 .. MaxTime :
           /\ HostTime(btn, time_ms)
           /\ \E levels \in LevelScripts(step_reads(btns, btn, time_ms)) :
                  Step(btn, time_ms, levels)

Spec == Init /\ [][Next]_vars

\* the host also asks button_busy between any two calls
NextBusy ==
    \/ Next
    \/ \E btn \in HostHandles : Busy(btn)

SpecBusy == Init /\ [][NextBusy]_vars

\* the parameter blocks of the parameter-management specification: valid
\* ones, one with each duration zero, one with min_press_time_ms below
\* sampling_interval_ms, and blocks whose pulse count is 29, 30, 31 and 40
WideParamInputs ==
    {get_default_param, ParamA, ParamB,
     Param(0, 60, 300, 200, 500), Param(10, 0, 300, 200, 500),
     Param(10, 60, 0, 200, 500), Param(10, 60, 300, 0, 500),
     Param(10, 60, 300, 200, 0), Param(10, 5, 300, 200, 500),
     Param(10, 290, 300, 200, 500), Param(10, 300, 300, 200, 500),
     Param(10, 310, 300, 200, 500), Param(1, 40, 3, 2, 3)}

NextParam ==
    \/ \E f_get \in {NULL, <<"get_state">>}, cb \in {NULL, <<"callback">>} :
           New(f_get, cb)
    \/ \E btn \in HostHandles : Delete(btn)
    \/ \E btn \in HostHandles,
          param \in {NULL} \cup {<<p>> : p \in WideParamInputs} :
           SetParam(btn, param)
    \/ \E btn \in HostHandles, param \in {NULL, <<ZeroParam>>} :
           GetParam(btn, param)

\* button_new, button_set_param, button_get_param and button_delete only
SpecParam == Init /\ [][NextParam]_vars

\* a block whose delay and rate are no multiples of its sampling interval
ParamH == Param(10, 60, 305, 195, 500)

\* the hold host runs its clock to MaxHoldTime
MaxHoldTime == 1070

\* the level is down from the first sample on and, once up, stays up; one
\* step reads one level throughout
HeldScripts(n) ==
    {[k \in 1 .. n |-> level] :
         level \in IF RecentAll(hist.samples, Len(hist.samples), 1)
                   THEN {0, 1} ELSE {0}}

\* the hold host steps one sampling interval after the step before
HoldTimes(btn) ==
    {btns[btn[1]].timestamp + btns[btn[1]].param.sampling_interval_ms}
        \cap (0 .. MaxHoldTime)

\* one instance with the default block or ParamH, enabled and stepped once
\* per sampling interval through a single press
NextHold ==
    \/ New(<<"get_state">>, <<"callback">>)
    \/ \E btn \in HostHandles \ {NULL} :
           ~btns[btn[1]].active /\ Enable(btn)
    \/ \E btn \in HostHandles :
           hist.samples = <<>> /\ SetParam(btn, <<ParamH>>)
    \/ \E btn \in HostHandles \ {NULL} :
           \E time_ms \in HoldTimes(btn) :
           /\ btns[btn[1]].active
           /\ \E levels \in HeldScripts(step_reads(btns, btn, time_ms)) :
                  Step(btn, time_ms, levels)

SpecHold == Init /\ [][NextHold]_vars

\* the late host runs its clock to MaxLateTime
MaxLateTime == 700
\* a late step comes ShortPulses or LatePulses sampling intervals after the
\* step before
ShortPulses == 8
LatePulses == 54
\* and is made no later than LateUntil
LateUntil == 600

\* the gaps the late host leaves between two steps: one sampling interval,
\* half of one, or ShortPulses or LatePulses of them
LateTimes(btn) ==
    LET si == btns[btn[1]].param.sampling_interval_ms
        ts == btns[btn[1]].timestamp
    IN  ({ts + si, ts + si \div 2} \cap (0 .. MaxLateTime))
            \cup ({ts + ShortPulses * si, ts + LatePulses * si}
                      \cap (0 .. LateUntil))

\* one instance with the default block, enabled and stepped early, on time
\* or late through a single press
NextLate ==
    \/ New(<<"get_state">>, <<"callback">>)
    \/ \E btn \in HostHandles \ {NULL} :
           ~btns[btn[1]].active /\ Enable(btn)
    \/ \E btn \in HostHandles \ {NULL} :
           \E time_ms \in LateTimes(btn) :
           /\ btns[btn[1]].active
           /\ \E levels \in HeldScripts(step_reads(btns, btn, time_ms)) :
                  Step(btn, time_ms, levels)

SpecLate == Init /\ [][NextLate]_vars

\* the clicking host runs its clock to MaxClickTime
MaxClickTime == 520

\* the clicking host steps one sampling interval after the step before
ClickTimes(btn) ==
    {btns[btn[1]].timestamp + btns[btn[1]].param.sampling_interval_ms}
        \cap (0 .. MaxClickTime)

\* the level toggles with every sample, starting down
ToggleScripts(n) == {[k \in 1 .. n |-> 1 - Recent(hist.samples, 1)]}

\* one instance with ParamB (N = 1), enabled and stepped once per sampling
\* interval while the level toggles: one click every two samples, each
\* inside the click window of the one before
NextClicks ==
    \/ \E cb \in {NULL, <<"callback">>} : New(<<"get_state">>, cb)
    \/ \E btn \in HostHandles \ {NULL} :
           ~btns[btn[1]].active /\ Enable(btn)
    \/ \E btn \in HostHandles \ {NULL} :
           /\ hist.samples = <<>> /\ btns[btn[1]].param # ParamB
           /\ SetParam(btn, <<ParamB>>)
    \/ \E btn \in HostHandles \ {NULL} :
           \E time_ms \in ClickTimes(btn) :
           /\ btns[btn[1]].active /\ btns[btn[1]].param = ParamB
           /\ \E levels \in ToggleScripts(step_reads(btns, btn, time_ms)) :
                  Step(btn, time_ms, levels)

SpecClicks == Init /\ [][NextClicks]_vars

-----------------------------------------------------------------------------
(* The millisecond counter wrapping between two steps: one scenario run on *)
(* two instances, slot 0 with the counter about to wrap and slot 1 with    *)
(* the counter starting at 0.                                              *)

\* slot 0 was last stepped at most WrapLead ms before the counter wraps
WrapLead == 6
\* the scenario lasts WrapRun ms
WrapRun == 8

\* an instance after button_new, button_set_param(ParamA), button_enable
\* and steps that read the level up until the counter shows time_ms: the
\* waveform, the click count and the three bookmarks are as button_new left
\* them
IdleSince(time_ms) ==
    [ZeroButton EXCEPT !.allocated = TRUE, !.active = TRUE,
                       !.get_state = <<"get_state">>,
                       !.get_state_ctx = <<"get_state_ctx">>,
                       !.callback = <<"callback">>,
                       !.callback_ctx = <<"callback_ctx">>,
                       !.param = ParamA,
                       !.timestamp = time_ms]

InitWrap ==
    /\ \E lead \in 1 .. WrapLead :
           btns = [i \in Slots |->
                      IF i = 0 THEN IdleSince(TimeRange - lead)
                      ELSE IF i = 1 THEN IdleSince(0)
                      ELSE ZeroButton]
    /\ call = NoCall
    /\ hist = HistInit
    /\ tasks = TasksInit

\* button_step on slot 0 and on slot 1, delta ms after the step before on
\* either counter, the getter returning the same levels to both
StepPair(delta, levels) ==
    LET time_ms == (btns[0].timestamp + delta) % TimeRange
        twin_ms == btns[1].timestamp + delta
    IN  \E r \in {button_step(btns, <<0>>, time_ms, levels)} :
        \E t \in {button_step(r.pool, <<1>>, twin_ms, levels)} :
            /\ btns' = t.pool
            /\ call' = [NoCall EXCEPT
                          !.op = "step", !.btn = <<0>>, !.ret = r.ret,
                          !.time_ms = time_ms, !.pulses = r.pulses,
                          !.reads = Len(levels),
                          !.entry_pressed = btns[0].pressed,
                          !.entry_clicks = btns[0].data.clicks,
                          !.state = r.state, !.event = r.event,
                          !.cbs = r.cbs,
                          !.twin_pulses = t.pulses,
                          !.twin_event = t.event,
                          !.twin_cbs = t.cbs]
            /\ UNCHANGED <<hist, tasks>>

NextWrap ==
    \E delta \in 1 .. MaxDelta :
        /\ btns[1].timestamp + delta <= WrapRun
        /\ \E levels \in LevelScripts(delta \div ParamA.sampling_interval_ms) :
               StepPair(delta, levels)

SpecWrap == InitWrap /\ [][NextWrap]_vars

-----------------------------------------------------------------------------
(* button_new and button_delete statement by statement, run by contexts    *)
(* that preempt each other at any statement.                               *)

Idle(c) == tasks.ctx[c].pc = "idle"

\* the main context creates BootInstances instances, then starts the others
BootInstances == 6

\* the main context has created its instances and started the others
Booted == Cardinality(Live) >= BootInstances

\* the main context creates its instances one after the other
Boot == ~Booted /\ Create(<<"get_state">>, <<"callback">>)

\* two contexts hold a handle to one slot, or one context holds it twice
Aliased ==
    \/ tasks.dup
    \/ \E c, d \in Contexts :
           c # d /\ tasks.ctx[c].held \cap tasks.ctx[d].held # {}

\* a context enters button_new with a non-null getter; the host makes no
\* further calls once it has seen two handles alias
CallNew(c) ==
    /\ Booted /\ Idle(c) /\ ~Aliased
    /\ tasks' = [tasks EXCEPT
                    !.ctx[c].pc = "new_lock",
                    !.raced = @ \/ \E d \in Contexts \ {c} : ~Idle(d)]
    /\ UNCHANGED <<btns, call, hist>>

\* a context enters button_delete with a handle it holds
CallDelete(c, i) ==
    /\ Idle(c) /\ ~Aliased /\ i \in tasks.ctx[c].held
    /\ tasks' = [tasks EXCEPT
                    !.ctx[c].pc = "delete_lock",
                    !.ctx[c].btn = <<i>>,
                    !.ctx[c].held = @ \ {i},
                    !.raced = @ \/ \E d \in Contexts \ {c} : ~Idle(d)]
    /\ UNCHANGED <<btns, call, hist>>

\* button_lock() of button_new and button_delete
Lock(c) ==
    /\ tasks.ctx[c].pc \in {"new_lock", "delete_lock"}
    /\ button_lock_ready(tasks)
    /\ tasks' = [tasks EXCEPT
                    !.owner = IF tasks.mutex THEN c ELSE @,
                    !.ctx[c].pc = IF @ = "new_lock" THEN "new_scan"
                                  ELSE "delete_zero",
                    !.ctx[c].i = 0]
    /\ UNCHANGED <<btns, call, hist>>

\* new_button: one turn of the loop up to the test of p->allocated
Scan(c) ==
    LET i == tasks.ctx[c].i
    IN  /\ tasks.ctx[c].pc = "new_scan"
        /\ tasks' = [tasks EXCEPT
                        !.ctx[c] =
                            IF i = BUTTON_MAX
                            THEN [@ EXCEPT !.pc = "new_unlock", !.btn = NULL]
                            ELSE IF ~btns[i].allocated
                            THEN [@ EXCEPT !.pc = "new_mark"]
                            ELSE [@ EXCEPT !.i = i + 1]]
        /\ UNCHANGED <<btns, call, hist>>

\* new_button: p->allocated = true; return p
Mark(c) ==
    LET i == tasks.ctx[c].i
    IN  /\ tasks.ctx[c].pc = "new_mark"
        /\ btns' = [btns EXCEPT ![i].allocated = TRUE]
        /\ tasks' = [tasks EXCEPT !.ctx[c].pc = "new_unlock",
                                  !.ctx[c].btn = <<i>>]
        /\ UNCHANGED <<call, hist>>

\* free_button: memset of the slot
Zero(c) ==
    /\ tasks.ctx[c].pc = "delete_zero"
    /\ btns' = free_button(btns, tasks.ctx[c].btn)
    /\ tasks' = [tasks EXCEPT !.ctx[c].pc = "delete_unlock"]
    /\ UNCHANGED <<call, hist>>

\* button_unlock() of button_new and button_delete; button_delete returns
Unlock(c) ==
    /\ tasks.ctx[c].pc \in {"new_unlock", "delete_unlock"}
    /\ tasks' = [tasks EXCEPT
                    !.owner = IF tasks.mutex THEN 0 ELSE @,
                    !.ctx[c] = IF @.pc = "new_unlock"
                               THEN [@ EXCEPT !.pc = "new_fill"]
                               ELSE [@ EXCEPT !.pc = "idle", !.btn = NULL,
                                              !.i = 0]]
    /\ UNCHANGED <<btns, call, hist>>

\* button_new after button_unlock: the fields of the slot, and the return
Fill(c) ==
    LET btn == tasks.ctx[c].btn
    IN  /\ tasks.ctx[c].pc = "new_fill"
        /\ btns' = IF btn = NULL THEN btns
                   ELSE [btns EXCEPT ![btn[1]] =
                            [@ EXCEPT !.get_state = <<"get_state">>,
                                      !.get_state_ctx = <<"get_state_ctx">>,
                                      !.callback = <<"callback">>,
                                      !.callback_ctx = <<"callback_ctx">>,
                                      !.param = get_default_param]]
        /\ tasks' = [tasks EXCEPT
                        !.dup = @ \/ (btn # NULL
                                         /\ btn[1] \in tasks.ctx[c].held),
                        !.ctx[c] =
                            [pc |-> "idle", i |-> 0, btn |-> NULL,
                             held |-> IF btn = NULL THEN @.held
                                      ELSE @.held \cup {btn[1]}]]
        /\ UNCHANGED <<call, hist>>

\* the build has the no-op lock pair or a mutual-exclusion pair
InitTasks ==
    /\ btns = [i \in Slots |-> ZeroButton]
    /\ call = NoCall
    /\ hist = HistInit
    /\ tasks \in {[TasksInit EXCEPT !.mutex = m] : m \in BOOLEAN}

NextTasks ==
    \/ Boot
    \/ \E c \in Contexts :
        \/ CallNew(c)
        \/ \E i \in Slots : CallDelete(c, i)
        \/ Lock(c)
        \/ Scan(c)
        \/ Mark(c)
        \/ Zero(c)
        \/ Unlock(c)
        \/ Fill(c)

SpecTasks == InitTasks /\ [][NextTasks]_vars

\* sequential button_new and button_delete calls on the whole pool
NextPool ==
    \/ \E f_get \in {NULL, <<"get_state">>} : Create(f_get, <<"callback">>)
    \/ \E btn \in HostHandles : Delete(btn)

SpecPool == Init /\ [][NextPool]_vars

-----------------------------------------------------------------------------
(* Properties.                                                             *)

\* the last call was a button_step that the engine processed
Stepped == call.op = "step" /\ call.ret = BUTTON_ERROR_NONE

\* ... and it shifted in at least one sample
Sampled == Stepped /\ call.pulses > 0

\* the instance the last call was made on
TheBtn == btns[call.btn[1]]

\* N = min_press_time_ms / sampling_interval_ms of that instance
TheN ==
    TheBtn.param.min_press_time_ms \div TheBtn.param.sampling_interval_ms

\* the PRESSED and RELEASED callbacks of the instance, in order
EdgeLog ==
    SelectSeq(hist.log,
              LAMBDA e : e.event \in {BUTTON_EVT_PRESSED, BUTTON_EVT_RELEASED})

\* C1: PRESSED is emitted only by a step entered with pressed false and
\* RELEASED only by a step entered with pressed true; the two alternate
\* starting with PRESSED, and pressed is true exactly when the most recent
\* of the two was PRESSED.
C1_PressReleaseAlternate ==
    /\ Stepped /\ call.event = BUTTON_EVT_PRESSED => ~call.entry_pressed
    /\ Stepped /\ call.event = BUTTON_EVT_RELEASED => call.entry_pressed
    /\ \A k \in 1 .. Len(EdgeLog) :
           EdgeLog[k].event = IF k % 2 = 1 THEN BUTTON_EVT_PRESSED
                              ELSE BUTTON_EVT_RELEASED
    /\ \A i \in Live : btns[i].pressed <=> hist.edge = BUTTON_EVT_PRESSED

\* C1 witness: a late step (two samples at once) emitted the RELEASED of a
\* press that had been reported
C1_Witness ==
    /\ Stepped /\ call.event = BUTTON_EVT_RELEASED /\ call.pulses = 2
    /\ Len(EdgeLog) = 2

\* C2: every RELEASED callback is followed at once, in the same step, by
\* exactly one CLICK callback carrying the count that release incremented;
\* CLICK is issued in no other situation; other callbacks carry data 0.
C2_ClickFollowsReleased ==
    call.op = "step" =>
        /\ \A k \in 1 .. Len(call.cbs) :
               /\ call.cbs[k].event = BUTTON_EVT_RELEASED =>
                      /\ k = 1 /\ Len(call.cbs) = 2
                      /\ call.cbs[2] =
                             [event |-> BUTTON_EVT_CLICK,
                              data |-> (call.entry_clicks + 1) % UINT8_RANGE]
               /\ call.cbs[k].event = BUTTON_EVT_CLICK =>
                      k = 2 /\ call.cbs[1].event = BUTTON_EVT_RELEASED
               /\ call.cbs[k].event # BUTTON_EVT_CLICK => call.cbs[k].data = 0
        /\ Stepped /\ call.event = BUTTON_EVT_RELEASED
                   /\ TheBtn.callback # NULL =>
               call.cbs # <<>> /\ call.cbs[1].event = BUTTON_EVT_RELEASED

\* C2 witness: the second release inside one click window: RELEASED, CLICK(2)
C2_Witness ==
    /\ call.op = "step"
    /\ call.cbs = <<[event |-> BUTTON_EVT_RELEASED, data |-> 0],
                    [event |-> BUTTON_EVT_CLICK, data |-> 2]>>

\* C3: a step that shifts in samples emits PRESSED iff pressed was false at
\* entry and the N most recent samples are then all down; a level script
\* that never holds N consecutive down samples produces no event and
\* leaves clicks at 0.
C3_PressDebounce ==
    /\ Sampled =>
           (call.event = BUTTON_EVT_PRESSED
                <=> ~call.entry_pressed /\ RecentAll(hist.samples, TheN, 1))
    /\ ~hist.run =>
           /\ hist.events = 0 /\ hist.log = <<>>
           /\ \A i \in Live : btns[i].data.clicks = 0 /\ ~btns[i].pressed

\* C3 witness: six samples of 1,0,1,0,1,0 bounce with N = 2
C3_Witness ==
    /\ Sampled /\ TheN = 2
    /\ hist.samples = <<1, 0, 1, 0, 1, 0>>

\* a press of at least N down samples followed by at least N up samples,
\* every step exactly one sampling interval after the one before
CleanClick ==
    /\ Sampled /\ hist.exact /\ TheBtn.callback # NULL
    /\ \E a, b, c \in 0 .. Len(hist.samples) :
           /\ b >= TheN /\ c >= TheN
           /\ a + b + c = Len(hist.samples)
           /\ \A k \in 1 .. Len(hist.samples) :
                  hist.samples[k] = IF k > a /\ k <= a + b THEN 1 ELSE 0

\* the number of down samples of the history
Downs == Len(SelectSeq(hist.samples, LAMBDA x : x = 1))

\* a RELEASED step is qualified: pressed at entry, one down sample followed
\* by exactly N up samples
ReleaseQualified ==
    Sampled =>
        (call.event = BUTTON_EVT_RELEASED
             <=> /\ call.entry_pressed
                 /\ Recent(hist.samples, TheN + 1) = 1
                 /\ RecentAll(hist.samples, TheN, 0))

\* C4 as claimed: RELEASED iff qualified, and a clean click stepped once per
\* interval produces exactly PRESSED, RELEASED, CLICK(1)
C4_Original ==
    /\ ReleaseQualified
    /\ CleanClick =>
           hist.log = <<[event |-> BUTTON_EVT_PRESSED, data |-> 0],
                        [event |-> BUTTON_EVT_RELEASED, data |-> 0],
                        [event |-> BUTTON_EVT_CLICK, data |-> 1]>>

\* C4 (amended): RELEASED iff qualified, and a clean click stepped once per
\* interval produces PRESSED, then HOLDING callbacks only when the press
\* lasts repeat_delay_ms or longer after PRESSED, then RELEASED, CLICK(1),
\* and nothing else.
C4_ReleaseQualified ==
    /\ ReleaseQualified
    /\ CleanClick =>
           /\ Len(hist.log) >= 3
           /\ hist.log[1] = [event |-> BUTTON_EVT_PRESSED, data |-> 0]
           /\ \A k \in 2 .. (Len(hist.log) - 2) :
                  hist.log[k] = [event |-> BUTTON_EVT_HOLDING, data |-> 0]
           /\ hist.log[Len(hist.log) - 1] =
                  [event |-> BUTTON_EVT_RELEASED, data |-> 0]
           /\ hist.log[Len(hist.log)] =
                  [event |-> BUTTON_EVT_CLICK, data |-> 1]
           /\ (Downs - TheN) * TheBtn.param.sampling_interval_ms
                  < TheBtn.param.repeat_delay_ms => Len(hist.log) = 3

\* C4 witness: a clean click with N = 2 and one up sample more than needed
C4_Witness ==
    /\ CleanClick /\ TheN = 2
    /\ hist.samples = <<0, 1, 1, 1, 0, 0, 0>>
    /\ Len(hist.log) = 3

\* C5 as claimed: after a step, never pressed while the N most recent
\* samples are all up
C5_NoMissedRelease ==
    Sampled => ~(TheBtn.pressed /\ RecentAll(hist.samples, TheN, 0))

\* C6: HOLDING is never emitted before time_pressed + repeat_delay_ms,
\* consecutive HOLDINGs of one hold are at least repeat_rate_ms -
\* sampling_interval_ms apart, and a HOLDING step leaves pressed true
\* (classification DOWN).
C6_HoldingTiming ==
    Stepped /\ call.event = BUTTON_EVT_HOLDING /\ hist.stable =>
        /\ hist.pressed_at # -1
        /\ call.time_ms >= hist.pressed_at + TheBtn.param.repeat_delay_ms
        /\ hist.holding_prev # -1 =>
               call.time_ms - hist.holding_prev
                   >= TheBtn.param.repeat_rate_ms
                          - TheBtn.param.sampling_interval_ms
        /\ TheBtn.pressed /\ call.state = STATE_DOWN
        /\ RecentAll(hist.samples, TheN, 1)

\* C6 witness: the second HOLDING of a hold
C6_Witness ==
    /\ Stepped /\ call.event = BUTTON_EVT_HOLDING
    /\ hist.holding_prev # -1 /\ TheN = 2

\* C7: a sampling step sets clicks to 0 iff its classification is not
\* PRESSED, DOWN or DEBOUNCING and now_ms - time_released >= click_window_ms
\* after its bookkeeping; otherwise clicks changes only by the +1 of a
\* RELEASED.  A release step never resets the count it incremented, and
\* the first release after an idle step past the window reports CLICK(1).
C7_ClickWindow ==
    /\ Sampled =>
           LET closed ==
                   /\ call.state \notin
                          {STATE_PRESSED, STATE_DOWN, STATE_DEBOUNCING}
                   /\ U32Sub(call.time_ms, TheBtn.data.time_released)
                          >= TheBtn.param.click_window_ms
               bumped ==
                   IF call.event = BUTTON_EVT_RELEASED
                   THEN (call.entry_clicks + 1) % UINT8_RANGE
                   ELSE call.entry_clicks
           IN  /\ TheBtn.data.clicks = IF closed THEN 0 ELSE bumped
               /\ call.event = BUTTON_EVT_RELEASED =>
                      ~closed /\ TheBtn.data.clicks = bumped
    /\ call.op = "step" /\ call.btn # NULL /\ ~Sampled =>
           TheBtn.data.clicks = call.entry_clicks
    /\ Sampled /\ call.event = BUTTON_EVT_RELEASED /\ hist.rel_since_idle = 1 =>
           /\ TheBtn.data.clicks = 1
           /\ TheBtn.callback # NULL =>
                  call.cbs[2] = [event |-> BUTTON_EVT_CLICK, data |-> 1]

\* C7 witness: a second press/release cycle, after an idle step past the
\* click window, reports CLICK(1)
C7_Witness ==
    /\ Sampled /\ call.event = BUTTON_EVT_RELEASED
    /\ hist.idle_closed /\ hist.rel_since_idle = 1
    /\ Len(EdgeLog) = 4
    /\ call.cbs = <<[event |-> BUTTON_EVT_RELEASED, data |-> 0],
                    [event |-> BUTTON_EVT_CLICK, data |-> 1]>>

\* N = min_press_time_ms / sampling_interval_ms of a parameter block
PulseCountOf(param) == param.min_press_time_ms \div param.sampling_interval_ms

\* C8 as claimed: button_set_param rejects every block whose own N is at
\* least bits(waveform) - 2, so every stored block has
\* N + 1 <= bits(waveform) - 1
C8_RejectsLargePulseCount ==
    /\ call.op = "set_param" /\ call.btn # NULL /\ call.param # NULL
           /\ call.param[1].sampling_interval_ms # 0
           /\ PulseCountOf(call.param[1]) >= WAVEFORM_BITS - 2 =>
               call.ret = BUTTON_ERROR_INCORRECT_PARAM
    /\ \A i \in Live : PulseCountOf(btns[i].param) + 1 <= WAVEFORM_BITS - 1

\* a duration of the block is zero, or its press time is below its interval
BadDurations(param) ==
    \/ param.sampling_interval_ms = 0
    \/ param.min_press_time_ms = 0
    \/ param.repeat_delay_ms = 0
    \/ param.repeat_rate_ms = 0
    \/ param.click_window_ms = 0
    \/ param.min_press_time_ms < param.sampling_interval_ms

\* the state part of C9
SetParamResult ==
    call.op = "set_param" =>
        /\ (call.btn = NULL \/ call.param = NULL) =>
               call.ret = BUTTON_ERROR_INVALID_PARAM
        /\ (call.btn # NULL /\ call.param # NULL) =>
               /\ call.ret # BUTTON_ERROR_INVALID_PARAM
               /\ BadDurations(call.param[1]) =>
                      call.ret = BUTTON_ERROR_INCORRECT_PARAM
               /\ call.ret = BUTTON_ERROR_NONE =>
                      TheBtn.param = call.param[1]

\* a button_get_param right after a successful button_set_param on the same
\* instance
GetAfterSet ==
    /\ call.op = "set_param" /\ call.ret = BUTTON_ERROR_NONE
    /\ call'.op = "get_param" /\ call'.btn = call.btn
    /\ call'.param # NULL

\* C9: button_set_param returns INVALID_PARAM for a null instance or
\* param, INCORRECT_PARAM when a duration is zero or min_press_time_ms <
\* sampling_interval_ms; a failing call changes nothing; after a successful
\* call the next button_get_param returns exactly the block that was set.
C9_SetParamContract ==
    /\ []SetParamResult
    /\ [][(call'.op = "set_param" /\ call'.ret # BUTTON_ERROR_NONE) =>
              btns' = btns]_vars
    /\ [][GetAfterSet =>
              (call'.ret = BUTTON_ERROR_NONE /\ call'.out = call.param)]_vars

\* C9 witness: a block with click_window_ms = 0 was refused on an instance
\* that holds a block set before
C9_Witness ==
    /\ call.op = "set_param" /\ call.ret = BUTTON_ERROR_INCORRECT_PARAM
    /\ call.param = <<Param(10, 60, 300, 200, 0)>>
    /\ TheBtn.param = ParamA

\* the state part of C10
StepResult ==
    /\ call.op = "step" =>
           /\ call.btn = NULL => call.ret = BUTTON_ERROR_INVALID_PARAM
           /\ call.btn # NULL =>
                  call.ret = IF TheBtn.active THEN BUTTON_ERROR_NONE
                             ELSE BUTTON_ERROR_DISABLED
           /\ call.ret = BUTTON_ERROR_DISABLED =>
                  call.reads = 0 /\ call.cbs = <<>>
    /\ call.op = "new" /\ call.handle # NULL => ~btns[call.handle[1]].active
    /\ call.op = "enable" /\ call.btn # NULL => TheBtn.active
    /\ call.op = "disable" /\ call.btn # NULL => ~TheBtn.active

\* C10: button_step returns INVALID_PARAM for a null instance, DISABLED
\* whenever active is false (then reading no level, invoking no callback
\* and changing no field) and OK otherwise; a new instance is inactive
\* until button_enable, and button_disable makes it inactive again.
C10_StepErrors ==
    /\ []StepResult
    /\ [][(call'.op = "step" /\ call'.ret = BUTTON_ERROR_DISABLED) =>
              (btns' = btns /\ hist' = hist)]_vars
    /\ [][\A i \in Slots :
              (~btns[i].active /\ btns'[i].active) => call'.op = "enable"]_vars

\* C10 witness: a step refused as DISABLED on an instance that is pressed
\* and was disabled in mid-press
C10_Witness ==
    /\ call.op = "step" /\ call.ret = BUTTON_ERROR_DISABLED
    /\ TheBtn.pressed /\ hist.samples # <<>>

\* the slots other than the one a handle points to are left as they were
OthersKept(btn) == \A j \in Slots : j # btn[1] => btns'[j] = btns[j]

\* a button_new call and its outcome on the pool
NewOutcome ==
    call'.op = "new" =>
        /\ call'.handle = NULL
               <=> (call'.f_get = NULL \/ \A i \in Slots : btns[i].allocated)
        /\ call'.handle = NULL => btns' = btns
        /\ call'.handle # NULL =>
               /\ call'.handle[1] \in Slots
               /\ ~btns[call'.handle[1]].allocated
               /\ btns'[call'.handle[1]].allocated
               /\ OthersKept(call'.handle)

\* a button_delete call frees its slot and no other
DeleteOutcome ==
    call'.op = "delete" =>
        /\ ~btns'[call'.btn[1]].allocated
        /\ OthersKept(call'.btn)

\* C11: button_new returns null iff the getter is null or every slot is
\* allocated; otherwise it returns a slot that was not allocated (so it
\* differs from every live handle) and marks it, leaving the other slots
\* alone; at most BUTTON_MAX instances are live; button_delete makes its
\* slot available again.
C11_PoolAllocation ==
    /\ [](Cardinality(Live) <= BUTTON_MAX)
    /\ [][NewOutcome]_vars
    /\ [][DeleteOutcome]_vars

\* C11 witness: slot 3 of a full pool was deleted and the next button_new
\* returned it, filling the pool again
C11_Witness ==
    /\ call.op = "new" /\ call.handle = <<3>>
    /\ \A i \in Slots : btns[i].allocated

\* the step now made is on an enabled instance, less than one sampling
\* interval after the timestamp the instance holds
SubIntervalStep ==
    /\ call'.op = "step" /\ call'.btn # NULL
    /\ btns[call'.btn[1]].active
    /\ U32Sub(call'.time_ms, btns[call'.btn[1]].timestamp)
           < btns[call'.btn[1]].param.sampling_interval_ms

\* the step now made is processed by the engine
ProcessedStep ==
    /\ call'.op = "step" /\ call'.btn # NULL
    /\ btns[call'.btn[1]].active

\* C12: button_step on an enabled instance with now_ms - timestamp <
\* sampling_interval_ms returns OK, reads no level, invokes no callback and
\* leaves every field, timestamp included, as it was; every processed step
\* therefore shifts in (now_ms - timestamp) / sampling_interval_ms samples
\* counted from the last step that shifted any.
C12_SubIntervalNoOp ==
    /\ [][SubIntervalStep =>
              /\ call'.ret = BUTTON_ERROR_NONE
              /\ call'.reads = 0 /\ call'.pulses = 0
              /\ call'.cbs = <<>> /\ call'.event = BUTTON_EVT_NONE
              /\ btns' = btns /\ hist' = hist]_vars
    /\ [][ProcessedStep =>
              /\ call'.reads =
                     U32Sub(call'.time_ms, btns[call'.btn[1]].timestamp)
                         \div btns[call'.btn[1]].param.sampling_interval_ms
              /\ Len(hist'.samples) = Len(hist.samples) + call'.reads]_vars

\* C12 witness: a step half an interval after the PRESSED step did nothing
\* to the pressed instance
C12_Witness ==
    /\ Stepped /\ call.pulses = 0 /\ call.reads = 0
    /\ TheBtn.pressed /\ hist.edge = BUTTON_EVT_PRESSED
    /\ call.time_ms = TheBtn.data.time_pressed + 5
    /\ TheBtn.timestamp = TheBtn.data.time_pressed

\* N of the instance in slot i
PulseCountIn(i) == PulseCountOf(btns[i].param)

\* the step now made on the instance in slot i, which was not busy, read
\* nothing but up levels
QuietStep(i) ==
    /\ ~button_busy(btns, <<i>>)
    /\ call'.op = "step" /\ call'.btn = <<i>>
    /\ \A k \in (Len(hist.samples) + 1) .. Len(hist'.samples) :
           hist'.samples[k] = 0

\* C13: button_busy is true iff one of the N most recent samples is down,
\* so it is false once N consecutive up samples are shifted in; a step on
\* an instance that is not busy, reading up levels only, invokes no
\* callback and leaves the instance not busy.
C13_BusyMeansRecentDown ==
    /\ [](call.op = "busy" =>
             (call.busy <=> ~RecentAll(hist.samples, TheN, 0)))
    /\ [](\A i \in Live :
             RecentAll(hist.samples, PulseCountIn(i), 0)
                 => ~button_busy(btns, <<i>>))
    /\ [][\A i \in Live :
              QuietStep(i) =>
                  /\ call'.cbs = <<>> /\ call'.event = BUTTON_EVT_NONE
                  /\ ~button_busy(btns', <<i>>)]_vars

\* C13 witness: button_busy answered false right after the step that
\* shifted the second up sample into a press with N = 2 and so emitted
\* RELEASED
C13_Witness ==
    /\ call.op = "busy" /\ ~call.busy /\ TheN = 2
    /\ hist.samples = <<1, 1, 0, 0>>
    /\ hist.edge = BUTTON_EVT_RELEASED

\* the PRESSED, RELEASED and HOLDING callbacks of the last step
EdgeCallbacks ==
    SelectSeq(call.cbs,
              LAMBDA e : e.event \in {BUTTON_EVT_PRESSED, BUTTON_EVT_RELEASED,
                                      BUTTON_EVT_HOLDING})

\* one step emits at most one of PRESSED, RELEASED, HOLDING, and a step
\* that shifted samples leaves timestamp == now_ms
OneEventPerStep ==
    /\ call.op = "step" => Len(EdgeCallbacks) <= 1 /\ Len(call.cbs) <= 2
    /\ Sampled => TheBtn.timestamp = call.time_ms

\* the last step was late and shifted N or more samples, all down, into an
\* instance that was pressed at entry
LateDownStep ==
    /\ Sampled /\ call.entry_pressed /\ TheBtn.callback # NULL
    /\ call.pulses > 1 /\ call.pulses >= TheN
    /\ \A k \in 1 .. call.pulses : Recent(hist.samples, k) = 1

\* the time of the last HOLDING before the last step, -1 for none in this
\* press
HoldingBefore ==
    IF call.event = BUTTON_EVT_HOLDING THEN hist.holding_prev
    ELSE hist.holding_at

\* C14 as claimed: a late step of down samples into a pressed instance
\* stays in DOWN and emits exactly one HOLDING when now_ms - time_pressed
\* >= repeat_delay_ms
C14_Original ==
    /\ OneEventPerStep
    /\ LateDownStep =>
           /\ call.state = STATE_DOWN
           /\ call.time_ms - hist.pressed_at >= TheBtn.param.repeat_delay_ms
                  => call.cbs = <<[event |-> BUTTON_EVT_HOLDING, data |-> 0]>>

\* C14 (amended): one step emits at most one of PRESSED, RELEASED, HOLDING
\* and leaves timestamp == now_ms when it shifted samples; a late step of
\* down samples into a pressed instance stays in DOWN and emits exactly
\* one HOLDING when no HOLDING was emitted yet in this press and now_ms -
\* time_pressed >= repeat_delay_ms, or when now_ms - time_repeat >=
\* repeat_rate_ms after an earlier HOLDING, and no callback otherwise.
C14_OneEventPerStep ==
    /\ OneEventPerStep
    /\ LateDownStep =>
           /\ call.state = STATE_DOWN /\ TheBtn.pressed
           /\ call.cbs =
                  IF \/ /\ HoldingBefore = -1
                        /\ call.time_ms - hist.pressed_at
                               >= TheBtn.param.repeat_delay_ms
                     \/ /\ HoldingBefore # -1
                        /\ call.time_ms - HoldingBefore
                               >= TheBtn.param.repeat_rate_ms
                  THEN <<[event |-> BUTTON_EVT_HOLDING, data |-> 0]>>
                  ELSE <<>>

\* C14 witness: a step LatePulses intervals late, all down, into a press
\* that had no HOLDING yet: it skipped the delay and a whole repeat period
\* and emitted one HOLDING
C14_Witness ==
    /\ LateDownStep /\ call.pulses = LatePulses
    /\ HoldingBefore = -1
    /\ call.time_ms - hist.pressed_at
           >= TheBtn.param.repeat_delay_ms + TheBtn.param.repeat_rate_ms
    /\ call.cbs = <<[event |-> BUTTON_EVT_HOLDING, data |-> 0]>>

\* the last step shifted one sample into a history that is all down, every
\* step so far came exactly one sampling interval after the one before,
\* and PRESSED has been reported
HeldDown ==
    /\ Sampled /\ hist.exact /\ hist.pressed_at # -1
    /\ RecentAll(hist.samples, Len(hist.samples), 1)

\* the HOLDING callbacks received so far
HoldingsInLog ==
    Len(SelectSeq(hist.log, LAMBDA e : e.event = BUTTON_EVT_HOLDING))

\* a duration rounded up to whole sampling intervals
RoundUp(d, si) == ((d + si - 1) \div si) * si

\* under HeldDown, HOLDING comes with the first step at or after the delay
\* and then with each first step at or after the rate, and with no other
HoldCadence ==
    LET si == TheBtn.param.sampling_interval_ms
        rd == TheBtn.param.repeat_delay_ms
        rr == TheBtn.param.repeat_rate_ms
        since == call.time_ms - hist.pressed_at
        before == HoldingBefore
    IN  /\ HoldingsInLog =
               IF since < RoundUp(rd, si) THEN 0
               ELSE 1 + (since - RoundUp(rd, si)) \div RoundUp(rr, si)
        /\ (call.event = BUTTON_EVT_HOLDING /\ before = -1) =>
               since >= rd /\ since - si < rd
        /\ (call.event = BUTTON_EVT_HOLDING /\ before # -1) =>
               /\ call.time_ms - before >= rr
               /\ call.time_ms - si - before < rr
        /\ (call.event # BUTTON_EVT_HOLDING /\ call.entry_pressed) =>
               IF before = -1 THEN since < rd
               ELSE call.time_ms - before < rr

\* the default block, stepped every 10 ms: down for 1000 ms, then up until
\* RELEASED
DefaultHold ==
    /\ Sampled /\ hist.exact /\ TheBtn.param = get_default_param
    /\ Len(hist.samples) = 106
    /\ \A k \in 1 .. 106 : hist.samples[k] = IF k <= 100 THEN 1 ELSE 0

\* C15: with the level held down and one step per sampling interval, the
\* first HOLDING comes at the first step with now_ms - time_pressed >=
\* repeat_delay_ms and every later one at the first step with now_ms -
\* time_repeat >= repeat_rate_ms; with the defaults a 1000 ms hold gives
\* PRESSED, exactly 4 HOLDING, then RELEASED and CLICK(1).
C15_RepeatCadence ==
    /\ HeldDown => HoldCadence
    /\ DefaultHold =>
           hist.log = <<[event |-> BUTTON_EVT_PRESSED, data |-> 0],
                        [event |-> BUTTON_EVT_HOLDING, data |-> 0],
                        [event |-> BUTTON_EVT_HOLDING, data |-> 0],
                        [event |-> BUTTON_EVT_HOLDING, data |-> 0],
                        [event |-> BUTTON_EVT_HOLDING, data |-> 0],
                        [event |-> BUTTON_EVT_RELEASED, data |-> 0],
                        [event |-> BUTTON_EVT_CLICK, data |-> 1]>>

\* C15 witness: the 1000 ms hold with the defaults, released at 1060 ms
\* after HOLDING at 360, 560, 760 and 960 ms
C15_Witness ==
    /\ DefaultHold /\ call.event = BUTTON_EVT_RELEASED
    /\ call.time_ms = 1060 /\ HoldingsInLog = 4
    /\ hist.pressed_at = 60 /\ hist.released_at = 1060

\* C16 as claimed: every CLICK callback carries the number of RELEASED
\* events since clicks was last reset to 0, which is at least 1, however
\* many releases fall into one click window
C16_ClickCountsReleases ==
    call.op = "step" =>
        \A k \in 1 .. Len(call.cbs) :
            call.cbs[k].event = BUTTON_EVT_CLICK =>
                /\ call.cbs[k].data = hist.rel_since_idle
                /\ call.cbs[k].data >= 1

\* C17: with timestamps that do not wrap, time_repeat is 0 whenever pressed
\* is false and, within a press, until the first HOLDING of that press,
\* after which it is the time of the latest HOLDING; RELEASED resets it,
\* so the first HOLDING of a press comes repeat_delay_ms or more after the
\* PRESSED of that same press.
C17_RepeatBookmark ==
    /\ \A i \in Live :
           /\ ~btns[i].pressed => btns[i].data.time_repeat = 0
           /\ btns[i].pressed =>
                  btns[i].data.time_repeat =
                      IF hist.holding_at = -1 THEN 0 ELSE hist.holding_at
    /\ Stepped /\ call.event = BUTTON_EVT_RELEASED =>
           TheBtn.data.time_repeat = 0
    /\ Stepped /\ call.event = BUTTON_EVT_HOLDING /\ hist.holding_prev = -1 =>
           /\ TheBtn.data.time_pressed = hist.pressed_at
           /\ call.time_ms - hist.pressed_at >= TheBtn.param.repeat_delay_ms

\* C17 witness: the first HOLDING of a second press, after a first press
\* that had its own HOLDING
C17_Witness ==
    /\ Stepped /\ call.event = BUTTON_EVT_HOLDING
    /\ hist.holding_prev = -1
    /\ Len(EdgeLog) = 3 /\ HoldingsInLog = 2

\* the handles the contexts hold, one pair per context and slot
HandlesHeld == {p \in Contexts \X Slots : p[2] \in tasks.ctx[p[1]].held}

\* every free slot went to at most one caller: no two handles alias, each
\* held handle points to an allocated slot, and with the instances of the
\* main context no more than BUTTON_MAX are live
OneCallerPerSlot ==
    /\ ~Aliased
    /\ \A p \in HandlesHeld : btns[p[2]].allocated
    /\ Cardinality(HandlesHeld) + BootInstances <= BUTTON_MAX

\* C18: with a button_lock / button_unlock pair that implements mutual
\* exclusion every interleaving of button_new and button_delete calls
\* hands each free slot to at most one caller; with the no-op pair the
\* same holds as long as no call starts while another is in progress.
C18_LockedAllocation ==
    (tasks.mutex \/ ~tasks.raced) => OneCallerPerSlot

\* C18 witness: under a mutual-exclusion pair two contexts whose calls
\* overlapped hold the last two slots of the pool, one each
C18_Witness ==
    /\ tasks.mutex /\ tasks.raced
    /\ tasks.ctx[1].held = {BUTTON_MAX - 1}
    /\ tasks.ctx[2].held = {BUTTON_MAX - 2}
    /\ Idle(1) /\ Idle(2)

\* with the no-op pair two overlapping button_new calls were handed the
\* same slot
RaceAliased ==
    /\ ~tasks.mutex /\ tasks.raced
    /\ tasks.ctx[1].held \cap tasks.ctx[2].held # {}

\* button_delete leaves every field of its slot zero
DeleteZeroes ==
    call'.op = "delete" => btns'[call'.btn[1]] = ZeroButton

\* the instance a button_new call returns: zero but for the allocated flag,
\* the four arguments of this call and the default parameter block
FreshInstance ==
    [data |-> [waveform |-> WaveZero, time_pressed |-> 0,
               time_released |-> 0, time_repeat |-> 0, clicks |-> 0],
     param |-> Param(BUTTON_SAMPLING_INTERVAL_MS, BUTTON_MIN_PRESS_TIME_MS,
                     BUTTON_REPEAT_DELAY_MS, BUTTON_REPEAT_RATE_MS,
                     BUTTON_CLICK_WINDOW_MS),
     get_state |-> call'.f_get, get_state_ctx |-> call'.f_get_ctx,
     callback |-> call'.cb, callback_ctx |-> call'.cb_ctx,
     timestamp |-> 0, allocated |-> TRUE, active |-> FALSE,
     pressed |-> FALSE]

NewIsFresh ==
    (call'.op = "new" /\ call'.handle # NULL) =>
        btns'[call'.handle[1]] = FreshInstance

\* C19: button_delete zeroes every field of the slot, and every instance
\* button_new returns, in a fresh slot or in one reused after any history
\* of its previous owner, has waveform 0, clicks 0, pressed and active
\* false, all time bookmarks 0, the default parameter block and exactly
\* the getter, callback and contexts of this button_new call.
C19_FreshInstance ==
    /\ [][DeleteZeroes]_vars
    /\ [][NewIsFresh]_vars

\* C19 witness: button_new without a callback returned the slot whose
\* previous owner, deleted by the call before, was enabled and pressed
\* with a click counted, a HOLDING sent and its own parameter block
C19_Witness ==
    /\ call.op = "new" /\ call.used
    /\ call.handle # NULL /\ call.cb = NULL
    /\ btns[call.handle[1]].allocated

\* C20: the time differences of button_step are taken modulo the width of
\* the counter, so a step after the counter has wrapped shifts in
\* floor(elapsed / sampling_interval_ms) samples and reports the same
\* event, with the same callbacks, as the same scenario without a wrap.
C20_WrapSameEvents ==
    call.op = "step" =>
        /\ call.pulses = call.twin_pulses
        /\ call.event = call.twin_event
        /\ call.cbs = call.twin_cbs

\* the two instances are in the same state relative to their counters: the
\* same samples, latch and click count, and each bookmark in use as long ago
Aligned ==
    LET w == btns[0]
        t == btns[1]
    IN  /\ w.data.waveform = t.data.waveform
        /\ w.pressed = t.pressed
        /\ w.data.clicks = t.data.clicks
        /\ (w.data.time_repeat = 0) = (t.data.time_repeat = 0)
        /\ w.data.time_repeat # 0 =>
               U32Sub(w.timestamp, w.data.time_repeat)
                   = t.timestamp - t.data.time_repeat
        /\ w.pressed =>
               U32Sub(w.timestamp, w.data.time_pressed)
                   = t.timestamp - t.data.time_pressed
        /\ w.data.clicks # 0 =>
               U32Sub(w.timestamp, w.data.time_released)
                   = t.timestamp - t.data.time_released

\* from aligned instances a step gives the same events on both and leaves
\* them aligned, unless it is a HOLDING at counter value 0, which stores
\* the time_repeat value that stands for no HOLDING yet
WrapDiffersOnlyAfterHoldingAtZero ==
    [][Aligned =>
          /\ C20_WrapSameEvents'
          /\ \/ Aligned'
             \/ call'.event = BUTTON_EVT_HOLDING /\ call'.time_ms = 0]_vars

====
